---- MODULE Spec2Model ----
(***************************************************************************)
(* State-machine model of RAGProcessor (src/test2.py) and of the two       *)
(* front ends that drive it: the Streamlit session of src/app.py, which    *)
(* runs one call at a time, and the threaded Flask server of src/api.py,   *)
(* where an /upload and a /query request can run side by side on the one   *)
(* global processor.                                                       *)
(*                                                                         *)
(* Texts are sequences of characters; a character is a number:             *)
(*   0 is a blank, 1..NLetters are lower-case letters, and                 *)
(*   NLetters+1..2*NLetters are the matching upper-case letters.           *)
(* A document is identified by the index of the uploaded file in Files;    *)
(* 0 stands for Python's None.                                             *)
(***************************************************************************)
EXTENDS Integers, Sequences, FiniteSets, TLC

\* ---------------------------------------------------------------- bounds
NLetters == 32          \* distinct letters, hence distinct one-letter questions
MaxLoads == 2           \* load_document calls in a run of Spec / ConcSpec
MaxQueries == 3         \* questions cached before the last upload of a run
MaxCacheQueries == 32   \* process_query calls in a run

\* ------------------------------------------------------ program constants
CacheLimit == 30        \* len(self.query_cache) > 30
EvictBatch == 10        \* list(self.query_cache.keys())[:10]
TopK == 4               \* search_kwargs={"k": 4}

None == 0
Space == 0
MissingPage == 0 - 1    \* chunk metadata without a 'page' key
NullPage == 0 - 2       \* chunk metadata with 'page': None

\* ------------------------------------------------------------ text helpers
Min(a, b) == IF a < b THEN a ELSE b

\* str.lower() on one character, and on a text
Lower(c) == IF c > NLetters THEN c - NLetters ELSE c
Upper(c) == IF c >= 1 /\ c <= NLetters THEN c + NLetters ELSE c
LowerStr(s) == [i \in DOMAIN s |-> Lower(s[i])]

\* str.strip(): drop leading and trailing blanks
RECURSIVE LStrip(_)
LStrip(s) == IF s # <<>> /\ Head(s) = Space THEN LStrip(Tail(s)) ELSE s
RECURSIVE RStrip(_)
RStrip(s) ==
  IF s # <<>> /\ s[Len(s)] = Space THEN RStrip(SubSeq(s, 1, Len(s) - 1)) ELSE s
Strip(s) == RStrip(LStrip(s))

\* sub in s  (Python substring test)
Contains(sub, s) ==
  \E i \in 0..(Len(s) - Len(sub)) : SubSeq(s, i + 1, i + Len(sub)) = sub

\* hashlib.md5(text).hexdigest(): an injective fingerprint of the text
\* (positional encoding in base 2*NLetters+2 of the characters, each plus 1)
RECURSIVE md5(_)
md5(s) ==
  IF s = <<>> THEN 0
  ELSE md5(SubSeq(s, 1, Len(s) - 1)) * (2 * NLetters + 2) + s[Len(s)] + 1

\* question.lower().strip() without the lower(): a key that is case sensitive
get_cache_key_CaseSensitive(question) == md5(Strip(question))

get_cache_key(question) == md5(Strip(LowerStr(question)))

\* The synonym table, cut down to two rows: <<base word, synonyms>>.
synonym_pairs == << << <<1>>, <<2, Space, 3>> >>, << <<2>>, <<4>> >> >>

RECURSIVE ExpandFrom(_, _, _)
ExpandFrom(parts, query_lower, i) ==
  IF i > Len(synonym_pairs) THEN parts
  ELSE ExpandFrom(
         IF Contains(synonym_pairs[i][1], query_lower)
           THEN parts \o <<Space>> \o synonym_pairs[i][2]
           ELSE parts,
         query_lower, i + 1)

\* ' '.join([question] + matched synonym groups)
create_synonym_expanded_query(question) ==
  ExpandFrom(question, LowerStr(question), 1)

\* ------------------------------------------------------------- documents
\* An uploaded file: its name split at the dots, and the chunks the loader
\* and the splitter produce from it, each given by its metadata page
\* (0-indexed, MissingPage or NullPage).
Files == <<
  [name |-> <<"policy", "pdf">>,       chunks |-> <<0, 0, 1, 2, 2>>],
  [name |-> <<"claim", "v2", "DOCX">>, chunks |-> <<MissingPage, MissingPage>>],
  [name |-> <<"notes", "txt">>,        chunks |-> <<MissingPage>>],
  [name |-> <<"scan", "pdf">>,         chunks |-> <<>>],
  [name |-> <<"mail", "eml">>,         chunks |-> <<NullPage>>] >>

FileIds == DOMAIN Files

\* str.lower() on the extensions that occur
LowerExt(e) ==
  CASE e = "PDF" -> "pdf" [] e = "DOCX" -> "docx" [] e = "EML" -> "eml"
    [] e = "TXT" -> "txt" [] OTHER -> e

\* uploaded_file.name.split('.')[-1].lower()
file_extension(f) == LowerExt(Files[f].name[Len(Files[f].name)])

SupportedExtension(f) == file_extension(f) \in {"pdf", "docx", "eml"}

\* The similarity search of the in-memory store built from file `store`:
\* the TopK chunks (all of them when there are fewer) in an order that
\* depends on the query text. A result is a sequence of chunk indices.
Retrieve(store, text) ==
  LET n == Len(Files[store].chunks)
  IN  [i \in 1..Min(TopK, n) |-> ((Len(text) + i - 1) % n) + 1]

\* page + 1 for a known page; 'Unknown' (MissingPage) and None (NullPage)
\* are passed on as they are
get_source_info(store, docs) ==
  [i \in DOMAIN docs |->
     LET page_num == Files[store].chunks[docs[i]]
     IN  [chunk_number |-> i,
          page |-> IF page_num # MissingPage /\ page_num # NullPage
                     THEN page_num + 1 ELSE page_num]]

\* line 214: f"Page {source['page']}" unless the page is 'Unknown'
page_info(page) ==
  IF page # MissingPage THEN <<"Page", page>> ELSE <<"Source document">>

\* lines 213-216: the "--- CHUNK n (page_info) ---" headers of the response
SourceChunks(sources) ==
  [i \in DOMAIN sources |->
     [chunk_number |-> sources[i].chunk_number,
      page_info |-> page_info(sources[i].page)]]

\* ------------------------------------------------------------- responses
MSG_UPLOAD_FIRST == "Please upload a document first."
MSG_NO_INFO ==
  "I couldn't find relevant information in the document to answer your question."
MSG_QUERY_ERROR == "An error occurred while processing your query: "
MSG_LOAD_ERROR == "Error loading document: "
MSG_LOADED == "Document loaded successfully!"

NoAnswer == [doc |-> None, question |-> <<>>, context |-> <<>>]

Response(kind, msg, answer, sources, nref) ==
  [kind |-> kind, msg |-> msg, answer |-> answer, sources |-> sources, nref |-> nref]

NoResponse == Response("none", "", NoAnswer, <<>>, 0)

\* An exception that leaves process_query uncaught
QueryRaises(e) == Response("raised", e, NoAnswer, <<>>, 0)

\* except Exception as e: return f"An error occurred ...: {str(e)}"
OnQueryException(e) == Response("error", MSG_QUERY_ERROR, NoAnswer, <<>>, 0)

NoLoadResult ==
  [ok |-> FALSE, kind |-> "none", msg |-> "", error |-> "", chunks |-> 0]

\* except Exception as e: return False, f"Error loading document: {str(e)}"
OnLoadException(e) ==
  [ok |-> FALSE, kind |-> "pair", msg |-> MSG_LOAD_ERROR, error |-> e, chunks |-> 0]

\* return True, f"Document loaded successfully! Found {len(pages)} text chunks."
LoadSuccess(pages) ==
  [ok |-> TRUE, kind |-> "pair", msg |-> MSG_LOADED, error |-> "",
   chunks |-> Len(pages)]

\* rag_chain.invoke(question) when the model answers: the chain's own
\* retriever fetches the context for the question it is given, and the
\* model's text is a function of that context and that question.
ChainAnswer(chain, question) ==
  [doc |-> chain, question |-> question, context |-> Retrieve(chain, question)]

\* ----------------------------------------------------------------- cache
\* query_cache is a dict: a sequence of entries in insertion order.
CacheKeys(cache) == {cache[i].key : i \in DOMAIN cache}
HasKey(cache, k) == k \in CacheKeys(cache)
CacheGet(cache, k) ==
  cache[CHOOSE i \in DOMAIN cache : cache[i].key = k].value

\* self.query_cache[key] = value: a new key goes last, a key that is present
\* keeps its place
CacheSet(cache, k, v) ==
  IF HasKey(cache, k)
    THEN [i \in DOMAIN cache |->
            IF cache[i].key = k THEN [key |-> k, value |-> v] ELSE cache[i]]
    ELSE Append(cache, [key |-> k, value |-> v])

\* del self.query_cache[key]
CacheDel(cache, k) == SelectSeq(cache, LAMBDA e : e.key # k)

\* A snapshot of the newest keys instead of the oldest
OldestKeys_Newest(cache) ==
  IF Len(cache) > CacheLimit
    THEN [i \in 1..Min(EvictBatch, Len(cache)) |->
            cache[Len(cache) - Min(EvictBatch, Len(cache)) + i].key]
    ELSE <<>>

\* if len(cache) > 30: oldest_keys = list(cache.keys())[:10], the first 10
\* keys in insertion order (nothing to delete otherwise)
OldestKeys(cache) ==
  IF Len(cache) > CacheLimit
    THEN [i \in 1..Min(EvictBatch, Len(cache)) |-> cache[i].key]
    ELSE <<>>

\* ------------------------------------------------------------------ state
VARIABLES
  vector_store,    \* self.vector_store: the file the store was built from
  retriever,       \* self.retriever: the store it searches
  rag_chain,       \* self.rag_chain: the retriever the chain was built over
  temp_file_path,  \* self.temp_file_path
  query_cache,     \* self.query_cache
  tmpFiles,        \* temporary files that exist on disk
  cleaned,         \* cleanup() has run (the process is exiting)
  lpc,             \* where the load_document call stands
  ld,              \* its locals
  l_result,        \* what it returned
  qpc,             \* where each process_query call stands
  qry,             \* its locals
  q_result,        \* what it returned
  loaded,          \* the file of the last load_document that returned True
  asked,           \* how many distinct questions have been cached so far
  loadsLeft,       \* calls of load_document still to come
  queriesLeft,     \* calls of process_query still to come
  concurrent,      \* TRUE under the threaded server, FALSE in a session
  parallel         \* TRUE when the server also runs two queries at once

procVars == <<vector_store, retriever, rag_chain, temp_file_path, query_cache>>
loadVars == <<lpc, ld, l_result>>
queryVars == <<qpc, qry, q_result>>
vars == <<vector_store, retriever, rag_chain, temp_file_path, query_cache,
          tmpFiles, cleaned, lpc, ld, l_result, qpc, qry, q_result, loaded,
          asked, loadsLeft, queriesLeft, concurrent, parallel>>

\* The request threads that may be inside process_query
Threads == {"t1", "t2"}

NoLoad == [file |-> None, tmp |-> None, pages |-> <<>>,
           prior |-> <<None, None, None>>]

NoQuery == [question |-> <<>>, cache_key |-> 0, relevant_docs |-> <<>>,
            retriever |-> None, chain |-> None, response |-> NoAnswer,
            usedRetriever |-> FALSE, usedLLM |-> FALSE, failed |-> "",
            oldest_keys |-> <<>>, evicted |-> 0, retrievals |-> 0]

\* RAGProcessor.__init__
InitProcessor ==
  /\ vector_store = None
  /\ retriever = None
  /\ rag_chain = None
  /\ temp_file_path = None
  /\ query_cache = <<>>
  /\ tmpFiles = {}
  /\ cleaned = FALSE
  /\ lpc = "idle" /\ ld = NoLoad /\ l_result = NoLoadResult
  /\ qpc = [t \in Threads |-> "idle"]
  /\ qry = [t \in Threads |-> NoQuery]
  /\ q_result = [t \in Threads |-> NoResponse]
  /\ loaded = None
  /\ asked = 0

\* A Streamlit session: calls come one after another.
Init ==
  /\ InitProcessor
  /\ loadsLeft = MaxLoads /\ queriesLeft = MaxCacheQueries
  /\ concurrent = FALSE /\ parallel = FALSE

\* A session on one document that asks many questions.
CacheInit ==
  /\ InitProcessor
  /\ loadsLeft = 1 /\ queriesLeft = MaxCacheQueries
  /\ concurrent = FALSE /\ parallel = FALSE

\* The threaded server: an upload and a query may overlap.
ConcInit ==
  /\ InitProcessor
  /\ loadsLeft = MaxLoads /\ queriesLeft = MaxCacheQueries
  /\ concurrent = TRUE /\ parallel = FALSE

\* The threaded server on one document with a cache that fills up: two
\* queries may overlap once the cache has reached its limit.
OverflowInit ==
  /\ InitProcessor
  /\ loadsLeft = 1 /\ queriesLeft = MaxCacheQueries
  /\ concurrent = TRUE /\ parallel = TRUE

\* ---------------------------------------------------------- load_document
\* tempfile.NamedTemporaryFile picks a name that is not in use
NewTempFile == CHOOSE n \in 1..(Cardinality(tmpFiles) + 1) : n \notin tmpFiles

\* Uploads come while fewer than MaxQueries questions have been cached.
UploadWindow == asked < MaxQueries

\* The caller (st.button "Process Document" / POST /upload) calls
\* load_document(uploaded_file).  An upload and a query run at once only on
\* the threaded server.
StartLoad ==
  /\ ~cleaned /\ lpc = "idle" /\ loadsLeft > 0 /\ UploadWindow
  /\ concurrent \/ \A t \in Threads : qpc[t] = "idle"
  /\ \E f \in FileIds :
       ld' = [file |-> f, tmp |-> None, pages |-> <<>>,
              prior |-> <<vector_store, retriever, rag_chain>>]
  /\ lpc' = "stage"
  /\ loadsLeft' = loadsLeft - 1
  /\ UNCHANGED <<procVars, tmpFiles, cleaned, l_result, queryVars, loaded,
                 asked, queriesLeft, concurrent, parallel>>

\* lines 77-79: stage the upload in a temporary file
L_Stage ==
  /\ lpc = "stage"
  /\ tmpFiles' = tmpFiles \cup {NewTempFile}
  /\ temp_file_path' = NewTempFile
  /\ ld' = [ld EXCEPT !.tmp = NewTempFile]
  /\ lpc' = "ext"
  /\ UNCHANGED <<vector_store, retriever, rag_chain, query_cache, cleaned,
                 l_result, queryVars, loaded, asked, loadsLeft, queriesLeft,
                 concurrent, parallel>>

\* the except clause of load_document: the call ends with (False, message)
LoadFails(e) ==
  /\ lpc' = "done"
  /\ l_result' = OnLoadException(e)
  /\ UNCHANGED <<procVars, tmpFiles, cleaned, ld, queryVars, loaded, asked,
                 loadsLeft, queriesLeft, concurrent, parallel>>

LoadStep(next) ==
  /\ lpc' = next
  /\ UNCHANGED <<procVars, tmpFiles, cleaned, l_result, queryVars, loaded,
                 asked, loadsLeft, queriesLeft, concurrent, parallel>>

\* lines 82-91: pick the loader by extension
L_Extension ==
  /\ lpc = "ext"
  /\ IF SupportedExtension(ld.file)
       THEN LoadStep("load") /\ UNCHANGED ld
       ELSE LoadFails("Unsupported file type")

\* line 93: docs = loader.load(), which may raise
L_Load ==
  /\ lpc = "load"
  /\ \/ LoadStep("split") /\ UNCHANGED ld
     \/ LoadFails("loader")

\* lines 96-101: pages = text_splitter.split_documents(docs), which may raise
L_Split ==
  /\ lpc = "split"
  /\ \/ LoadStep("embed") /\ ld' = [ld EXCEPT !.pages = Files[ld.file].chunks]
     \/ LoadFails("splitter")

\* A build that publishes the store before the embedding has succeeded
VectorStoreAfterBuild_Early(ok, file, old) == file

\* line 104: self.vector_store is assigned only when from_documents returns
VectorStoreAfterBuild(ok, file, old) == IF ok THEN file ELSE old

\* line 104: self.vector_store = InMemoryVectorStore.from_documents(pages, ...)
\* embeds every chunk; the embedding may raise. Nothing in load_document
\* looks at the number of chunks.
L_Embed ==
  /\ lpc = "embed"
  /\ \E ok \in BOOLEAN :
       /\ vector_store' = VectorStoreAfterBuild(ok, ld.file, vector_store)
       /\ IF ok
            THEN /\ lpc' = "retriever"
                 /\ UNCHANGED l_result
            ELSE /\ lpc' = "done"
                 /\ l_result' = OnLoadException("embeddings")
  /\ UNCHANGED <<retriever, rag_chain, temp_file_path, query_cache, tmpFiles,
                 cleaned, ld, queryVars, loaded, asked, loadsLeft, queriesLeft,
                 concurrent, parallel>>

\* lines 107-110: self.retriever = self.vector_store.as_retriever(...)
L_Retriever ==
  /\ lpc = "retriever"
  /\ retriever' = vector_store
  /\ lpc' = "chain"
  /\ UNCHANGED <<vector_store, rag_chain, temp_file_path, query_cache,
                 tmpFiles, cleaned, ld, l_result, queryVars, loaded, asked,
                 loadsLeft, queriesLeft, concurrent, parallel>>

\* lines 113-120: self.rag_chain = ({"context": self.retriever | ...} | ...)
\* and return True, "... Found {len(pages)} text chunks."
L_Chain ==
  /\ lpc = "chain"
  /\ rag_chain' = retriever
  /\ l_result' = LoadSuccess(ld.pages)
  /\ loaded' = ld.file
  /\ lpc' = "done"
  /\ UNCHANGED <<vector_store, retriever, temp_file_path, query_cache,
                 tmpFiles, cleaned, ld, queryVars, asked, loadsLeft,
                 queriesLeft, concurrent, parallel>>

\* the caller takes the pair
LoadReturn ==
  /\ lpc = "done"
  /\ lpc' = "idle" /\ ld' = NoLoad /\ l_result' = NoLoadResult
  /\ UNCHANGED <<procVars, tmpFiles, cleaned, queryVars, loaded, asked,
                 loadsLeft, queriesLeft, concurrent, parallel>>

\* ---------------------------------------------------------------- cleanup
\* cleanup(), registered with atexit: unlink self.temp_file_path if it is
\* set and the file exists
Cleanup ==
  /\ ~cleaned /\ lpc = "idle" /\ \A t \in Threads : qpc[t] = "idle"
  /\ tmpFiles' = IF temp_file_path # None /\ temp_file_path \in tmpFiles
                   THEN tmpFiles \ {temp_file_path} ELSE tmpFiles
  /\ cleaned' = TRUE
  /\ UNCHANGED <<procVars, loadVars, queryVars, loaded, asked, loadsLeft,
                 queriesLeft, concurrent, parallel>>

\* ------------------------------------------------------------ process_query
\* The ways a one-letter question is typed: as it is, or in upper case
\* behind a blank.
Variants(c) == {<<c>>, <<Space, Upper(c)>>}

LetterOf(question) == Strip(LowerStr(question))[1]

\* The questions a caller may ask next: the next letter that has not been
\* cached yet, as it is, or the first or the latest cached letter again in
\* any variant. (Fingerprints are interchangeable, so the order in which new
\* questions arrive loses nothing.)
NextQuestions ==
  (IF asked < NLetters THEN {<<asked + 1>>} ELSE {})
    \cup UNION {Variants(c) : c \in {1, asked} \cap 1..asked}

\* Two queries run at once only on the threaded server, and here only once
\* the cache has reached its limit (before that, queries come one by one).
QueriesMayOverlap == parallel /\ Len(query_cache) >= CacheLimit

\* The caller ("Ask Question" / POST /query) calls process_query(question).
StartQuery(t) ==
  /\ ~cleaned /\ qpc[t] = "idle" /\ queriesLeft > 0
  /\ (concurrent /\ UploadWindow) \/ lpc = "idle"
  /\ QueriesMayOverlap \/ \A u \in Threads : qpc[u] = "idle"
  /\ \E q \in NextQuestions :
       qry' = [qry EXCEPT ![t] = [NoQuery EXCEPT !.question = q]]
  /\ qpc' = [qpc EXCEPT ![t] = "check"]
  /\ queriesLeft' = queriesLeft - 1
  /\ UNCHANGED <<procVars, tmpFiles, cleaned, loadVars, q_result, loaded,
                 asked, loadsLeft, concurrent, parallel>>

QueryStep(t, next) ==
  /\ qpc' = [qpc EXCEPT ![t] = next]
  /\ UNCHANGED <<procVars, tmpFiles, cleaned, loadVars, q_result, loaded,
                 asked, loadsLeft, queriesLeft, concurrent, parallel>>

QueryReturns(t, response) ==
  /\ qpc' = [qpc EXCEPT ![t] = "done"]
  /\ q_result' = [q_result EXCEPT ![t] = response]
  /\ UNCHANGED <<procVars, tmpFiles, cleaned, loadVars, loaded, asked,
                 loadsLeft, queriesLeft, concurrent, parallel>>

\* A guard that lets every call through
NoRagChain_Never(chain) == FALSE

\* line 184: not self.rag_chain
NoRagChain(chain) == chain = None

\* A test that takes every retrieval result for a non-empty one
HasDocs_Always(docs) == TRUE

\* line 201: if relevant_docs
HasDocs(docs) == docs # <<>>

\* lines 184-185: if not self.rag_chain: return "Please upload a document first."
Q_Check(t) ==
  /\ qpc[t] = "check"
  /\ IF NoRagChain(rag_chain)
       THEN QueryReturns(t, Response("upload_first", MSG_UPLOAD_FIRST, NoAnswer,
                                     <<>>, 0))
       ELSE QueryStep(t, "cache")
  /\ UNCHANGED qry

\* lines 189-192: a cached answer is returned with the cached-response mark
Q_Cache(t) ==
  /\ qpc[t] = "cache"
  /\ LET cache_key == get_cache_key(qry[t].question)
     IN  /\ qry' = [qry EXCEPT ![t].cache_key = cache_key]
         /\ IF HasKey(query_cache, cache_key)
              THEN LET cached_response == CacheGet(query_cache, cache_key)
                   IN  QueryReturns(t, Response("cached", "(Cached response)",
                                                cached_response.answer, <<>>,
                                                cached_response.nref))
              ELSE QueryStep(t, "retrieve")

\* lines 195-198: relevant_docs = self.retriever.invoke(enhanced_question),
\* which may raise (and does when self.retriever is None)
Q_Retrieve(t) ==
  /\ qpc[t] = "retrieve"
  /\ \/ /\ retriever # None
        /\ qry' = [qry EXCEPT
                     ![t].retriever = retriever,
                     ![t].relevant_docs =
                        Retrieve(retriever,
                                 create_synonym_expanded_query(qry[t].question)),
                     ![t].usedRetriever = TRUE,
                     ![t].retrievals = qry[t].retrievals + 1]
        /\ QueryStep(t, "chain")
     \/ /\ qry' = [qry EXCEPT ![t].usedRetriever = TRUE,
                              ![t].failed = "retriever"]
        /\ QueryReturns(t, OnQueryException("retriever"))

\* lines 201-203 and 229-230: with chunks, response = self.rag_chain.invoke(
\* question), which may raise; without, the fixed answer.  The chain runs
\* its own retriever on the question it is given (line 114).
Q_Chain(t) ==
  /\ qpc[t] = "chain"
  /\ IF HasDocs(qry[t].relevant_docs)
       THEN \/ /\ qry' = [qry EXCEPT
                            ![t].chain = rag_chain,
                            ![t].response =
                               ChainAnswer(rag_chain, qry[t].question),
                            ![t].usedLLM = TRUE,
                            ![t].retrievals = qry[t].retrievals + 1]
               /\ QueryStep(t, "store")
            \/ /\ qry' = [qry EXCEPT ![t].chain = rag_chain,
                                     ![t].usedLLM = TRUE,
                                     ![t].failed = "llm"]
               /\ QueryReturns(t, OnQueryException("llm"))
       ELSE /\ QueryReturns(t, Response("no_info", MSG_NO_INFO, NoAnswer, <<>>, 0))
            /\ UNCHANGED qry

\* lines 206-220: build the complete response from the model's answer and
\* the source chunks, and cache the answer with the number of chunks
Q_Store(t) ==
  /\ qpc[t] = "store"
  /\ LET sources == get_source_info(qry[t].retriever, qry[t].relevant_docs)
     IN  /\ q_result' = [q_result EXCEPT ![t] =
                           Response("answer", "SOURCE CHUNKS USED",
                                    qry[t].response, SourceChunks(sources),
                                    Len(sources))]
         /\ query_cache' = CacheSet(query_cache, qry[t].cache_key,
                                    [answer |-> qry[t].response,
                                     nref |-> Len(sources)])
  /\ asked' = IF LetterOf(qry[t].question) = asked + 1 THEN asked + 1 ELSE asked
  /\ qpc' = [qpc EXCEPT ![t] = "evict"]
  /\ UNCHANGED <<vector_store, retriever, rag_chain, temp_file_path, tmpFiles,
                 cleaned, loadVars, qry, loaded, loadsLeft, queriesLeft,
                 concurrent, parallel>>

\* lines 223-224 (and 228 when the cache is within its limit): test the
\* size and take the snapshot of the keys to delete
Q_Evict(t) ==
  /\ qpc[t] = "evict"
  /\ qry' = [qry EXCEPT ![t].oldest_keys = OldestKeys(query_cache)]
  /\ qpc' = [qpc EXCEPT ![t] =
               IF OldestKeys(query_cache) = <<>> THEN "done" ELSE "delete"]
  /\ UNCHANGED <<procVars, tmpFiles, cleaned, loadVars, q_result, loaded,
                 asked, loadsLeft, queriesLeft, concurrent, parallel>>

\* lines 225-228: del self.query_cache[key] for the next key of the
\* snapshot, a KeyError when the key is no longer there; after the last key,
\* return complete_response
Q_Delete(t) ==
  /\ qpc[t] = "delete"
  /\ LET key == Head(qry[t].oldest_keys)
     IN  IF HasKey(query_cache, key)
           THEN /\ query_cache' = CacheDel(query_cache, key)
                /\ qry' = [qry EXCEPT
                             ![t].oldest_keys = Tail(qry[t].oldest_keys),
                             ![t].evicted = qry[t].evicted + 1]
                /\ qpc' = [qpc EXCEPT ![t] =
                             IF Tail(qry[t].oldest_keys) = <<>>
                               THEN "done" ELSE "delete"]
                /\ UNCHANGED <<vector_store, retriever, rag_chain,
                               temp_file_path, tmpFiles, cleaned, loadVars,
                               q_result, loaded, asked, loadsLeft, queriesLeft,
                               concurrent, parallel>>
           ELSE /\ qry' = [qry EXCEPT ![t].failed = "KeyError"]
                /\ QueryReturns(t, OnQueryException("KeyError"))

\* the caller takes the response
QueryReturn(t) ==
  /\ qpc[t] = "done"
  /\ qpc' = [qpc EXCEPT ![t] = "idle"]
  /\ qry' = [qry EXCEPT ![t] = NoQuery]
  /\ q_result' = [q_result EXCEPT ![t] = NoResponse]
  /\ UNCHANGED <<procVars, tmpFiles, cleaned, loadVars, loaded, asked,
                 loadsLeft, queriesLeft, concurrent, parallel>>

\* ------------------------------------------------------------------- specs
Next ==
  \/ StartLoad \/ L_Stage \/ L_Extension \/ L_Load \/ L_Split \/ L_Embed
  \/ L_Retriever \/ L_Chain \/ LoadReturn
  \/ \E t \in Threads :
       \/ StartQuery(t) \/ Q_Check(t) \/ Q_Cache(t) \/ Q_Retrieve(t)
       \/ Q_Chain(t) \/ Q_Store(t) \/ Q_Evict(t) \/ Q_Delete(t)
       \/ QueryReturn(t)
  \/ Cleanup

Spec == Init /\ [][Next]_vars
CacheSpec == CacheInit /\ [][Next]_vars
ConcSpec == ConcInit /\ [][Next]_vars
OverflowSpec == OverflowInit /\ [][Next]_vars

\* ------------------------------------------------------------------ claims
Normalized(question) == Strip(LowerStr(question))

\* C1: a cached answer that process_query serves was produced under the
\* document that is loaded now: after a successful load of another document
\* a question cached under the earlier one misses the cache.
C1_ReloadClearsCache ==
  \A t \in Threads :
    (qpc[t] = "done" /\ q_result[t].kind = "cached")
      => q_result[t].answer.doc = loaded

\* C2: a load_document that fails returns (False, message) and leaves
\* vector_store, retriever and rag_chain as they were when it was called;
\* every answer process_query gives comes from the document of the last
\* load that succeeded.
C2_FailedLoadKeepsState ==
  /\ (lpc = "done" /\ ~l_result.ok) =>
        /\ l_result.kind = "pair"
        /\ <<vector_store, retriever, rag_chain>> = ld.prior
  /\ \A t \in Threads :
       (qpc[t] = "done" /\ q_result[t].kind = "answer") =>
          /\ q_result[t].answer.doc = loaded
          /\ qry[t].retriever = loaded

\* A reload of another file fails in the embedding step on a processor that
\* holds a working document.
C2_Witness ==
  /\ lpc = "done" /\ ~l_result.ok /\ l_result.error = "embeddings"
  /\ ld.prior[3] # None /\ ld.file # ld.prior[3]

\* C3: a question whose normalized text (lower-cased, stripped) equals that
\* of a question whose answer is in the cache is served from the cache: the
\* call returns the stored model answer, marked as cached, without invoking
\* the retriever or the language model; and the answer a call stores is the
\* model answer it returns.
C3_RepeatIsCacheHit ==
  /\ [](\A t \in Threads :
          (qpc[t] = "done" /\ q_result[t].kind = "answer") =>
             /\ HasKey(query_cache, qry[t].cache_key)
             /\ CacheGet(query_cache, qry[t].cache_key).answer
                  = q_result[t].answer)
  /\ [][\A t \in Threads :
          (/\ qpc[t] = "cache"
           /\ \E i \in DOMAIN query_cache :
                Normalized(query_cache[i].value.answer.question)
                  = Normalized(qry[t].question))
          => /\ qpc'[t] = "done"
             /\ q_result'[t].kind = "cached"
             /\ q_result'[t].msg = "(Cached response)"
             /\ \E i \in DOMAIN query_cache :
                  /\ Normalized(query_cache[i].value.answer.question)
                       = Normalized(qry[t].question)
                  /\ q_result'[t].answer = query_cache[i].value.answer
             /\ ~qry'[t].usedRetriever /\ ~qry'[t].usedLLM
             /\ query_cache' = query_cache]_vars

\* A cache hit for a question typed differently from the one that was cached.
C3_Witness ==
  \E t \in Threads :
    /\ qpc[t] = "done" /\ q_result[t].kind = "cached"
    /\ q_result[t].answer.question # qry[t].question
    /\ Normalized(q_result[t].answer.question) = Normalized(qry[t].question)

\* C4: between calls the cache holds at most 30 entries, and the eviction
\* run on 31 entries removes exactly the 10 oldest, one after the other,
\* leaving the 21 newest in order with the entry just inserted last.
C4_CacheBounded ==
  /\ []((\A t \in Threads : qpc[t] \in {"idle", "done"})
          => Len(query_cache) <= 30)
  /\ [](\A t \in Threads :
          (qpc[t] = "done" /\ qry[t].evicted > 0) =>
                /\ qry[t].evicted = 10
                /\ Len(query_cache) = 21
                /\ query_cache[21].key = qry[t].cache_key)
  /\ [][\A t \in Threads :
          /\ (qpc[t] = "evict" /\ Len(query_cache) = 31) =>
                /\ qpc'[t] = "delete"
                /\ query_cache' = query_cache
                /\ qry'[t].oldest_keys = [i \in 1..10 |-> query_cache[i].key]
          /\ qpc[t] = "delete" =>
                /\ Len(query_cache) + qry[t].evicted = 31
                /\ Head(query_cache).key = Head(qry[t].oldest_keys)
                /\ query_cache' = Tail(query_cache)]_vars

\* The call that inserted the 31st entry has returned.
C4_Witness ==
  \E t \in Threads :
    /\ qpc[t] = "done" /\ q_result[t].kind = "answer"
    /\ qry[t].evicted = 10 /\ Len(query_cache) = 21
    /\ query_cache[21].key = qry[t].cache_key

\* C5: while no load_document has ever returned True, process_query returns
\* "Please upload a document first." (not the no-relevant-information text),
\* invokes neither the retriever nor the language model and changes nothing
\* in the processor.
C5_QueryBeforeLoad ==
  [][\A t \in Threads :
       (qpc[t] = "check" /\ loaded = None)
       => /\ qpc'[t] = "done"
          /\ q_result'[t].kind = "upload_first"
          /\ q_result'[t].msg = "Please upload a document first."
          /\ q_result'[t].msg # MSG_NO_INFO
          /\ ~qry'[t].usedRetriever /\ ~qry'[t].usedLLM
          /\ UNCHANGED <<procVars, tmpFiles, loaded>>]_vars

\* The precondition error after a load that failed.
C5_Witness ==
  \E t \in Threads :
    /\ qpc[t] = "done" /\ q_result[t].kind = "upload_first"
    /\ loaded = None /\ tmpFiles # {}

\* C6: load_document always ends with a (success, message) pair and
\* process_query always ends with a response; when the language model
\* fails the response is the error response and the question's key is not
\* in the cache.
C6_NoExceptionEscapes ==
  /\ lpc = "done" => l_result.kind = "pair"
  /\ \A t \in Threads :
       /\ qpc[t] = "done" =>
            q_result[t].kind
              \in {"upload_first", "cached", "answer", "no_info", "error"}
       /\ (qpc[t] = "done" /\ qry[t].failed = "llm") =>
            /\ q_result[t].kind = "error"
            /\ q_result[t].msg = MSG_QUERY_ERROR
            /\ ~HasKey(query_cache, qry[t].cache_key)

\* The language model failed on a processor holding a document.
C6_Witness ==
  \E t \in Threads :
    /\ qpc[t] = "done" /\ qry[t].failed = "llm" /\ qry[t].usedLLM
    /\ rag_chain # None

\* C7: load_document never returns success with 0 chunks, and the
\* processor is never Ready on an index built from no chunks.
C7_EmptyDocumentRejected ==
  /\ (lpc = "done" /\ l_result.ok) => l_result.chunks > 0
  /\ rag_chain # None => Len(Files[rag_chain].chunks) > 0

\* C8: the temp file of a failed load is gone when the load returns, after
\* a successful load only that load's temp file exists, and after cleanup()
\* none exists.
C8_NoTempFileLeak ==
  /\ (lpc = "done" /\ ~l_result.ok) => ld.tmp \notin tmpFiles
  /\ (lpc = "done" /\ l_result.ok) => tmpFiles \subseteq {ld.tmp}
  /\ cleaned => tmpFiles = {}

\* C9: when the retriever returns no chunks, process_query returns the fixed
\* non-empty no-relevant-information response, does not invoke the language
\* model and leaves the question's key out of the cache.
C9_NoChunksNoAnswer ==
  \A t \in Threads :
    (/\ qpc[t] = "done" /\ qry[t].usedRetriever /\ qry[t].failed = ""
     /\ qry[t].relevant_docs = <<>>)
    => /\ q_result[t].kind = "no_info"
       /\ q_result[t].msg = MSG_NO_INFO /\ q_result[t].msg # ""
       /\ q_result[t].msg # MSG_UPLOAD_FIRST
       /\ ~qry[t].usedLLM
       /\ ~HasKey(query_cache, qry[t].cache_key)

\* Retrieval came back empty on a loaded document.
C9_Witness ==
  \E t \in Threads :
    /\ qpc[t] = "done" /\ qry[t].usedRetriever /\ qry[t].failed = ""
    /\ qry[t].relevant_docs = <<>> /\ rag_chain # None
    /\ qry[t].retriever # None

\* C10: an answered query used the retriever and the chain of one document.
C10_QuerySeesOneDocument ==
  \A t \in Threads :
    (qpc[t] = "done" /\ q_result[t].kind = "answer")
      => qry[t].retriever = qry[t].chain

\* C11: the cache accesses of overlapping process_query calls behave as if
\* serialized: a call that answered finds its entry in the cache when it
\* returns, between calls the cache holds at most 30 entries, the calls in
\* flight evict no more than one batch of 10 between them, and no call ends
\* with the error response because the key it deletes is already deleted.
C11_CacheAccessSerialized ==
  /\ \A t \in Threads :
       (qpc[t] = "done" /\ q_result[t].kind = "answer")
         => HasKey(query_cache, qry[t].cache_key)
  /\ (\A t \in Threads : qpc[t] \in {"idle", "done"})
       => Len(query_cache) <= CacheLimit
  /\ qry["t1"].evicted + qry["t2"].evicted <= EvictBatch
  /\ \A t \in Threads :
       qpc[t] = "done" => ~(q_result[t].kind = "error" /\ qry[t].failed = "KeyError")

\* C12: an answered query retrieved once, the model was given the question
\* as typed, and the chunks listed as sources are the chunks of the model's
\* context.
C12_SourcesAreContext ==
  \A t \in Threads :
    (qpc[t] = "done" /\ q_result[t].kind = "answer")
      => /\ qry[t].retrievals = 1
         /\ q_result[t].answer.question = qry[t].question
         /\ Len(q_result[t].sources) = Len(qry[t].relevant_docs)
         /\ q_result[t].answer.context = qry[t].relevant_docs

====
